---- MODULE Spec2Model ----
(***************************************************************************)
(* A model of cli/untroncli.py: the UntronCore command-line client.        *)
(*                                                                         *)
(* Strings are sequences of one-character strings, so that prefix tests,   *)
(* slicing and hex decoding are computed character by character, as the    *)
(* Python code computes them.                                              *)
(***************************************************************************)
EXTENDS Integers, Sequences, FiniteSets, TLC

(***************************************************************************)
(* Bounds of the model.                                                    *)
(***************************************************************************)
\* longest CLI string drawn for the hex arguments
MaxHexLen == 4
\* the signer's confirmed nonce when the invocation starts is 0..MaxInitNonce
MaxInitNonce == 1
\* the node's gas estimates are 1..MaxGas
MaxGas == 1
\* os.urandom(32) draws a salt in 0..MaxSalt
MaxSalt == 1

(***************************************************************************)
(* Program constants.                                                      *)
(***************************************************************************)
\* number of hex digits of an address (the zero-address literal)
AddrHexLen == 40
\* wait_for_transaction_receipt(timeout=240, poll_latency=0.5)
timeout == 240
\* poll_latency=0.5: two polls per time unit
polls_per_unit == 2

(***************************************************************************)
(* Strings.                                                                *)
(***************************************************************************)
RECURSIVE Rep(_, _)
Rep(c, n) == IF n = 0 THEN <<>> ELSE <<c>> \o Rep(c, n - 1)

\* Python's None, as a value that is no string of characters
None == <<"<None>">>

Str0x == <<"0", "x">>

\* the characters CLI strings are drawn from: hex digits of both cases,
\* the marker's "x", a non-hex letter and a blank
Alphabet == {"0", "x", "a", "F", "g", " "}

RECURSIVE StringsUpTo(_)
StringsUpTo(n) ==
  IF n = 0 THEN {<<>>}
  ELSE LET shorter == StringsUpTo(n - 1)
       IN  shorter \cup {Append(s, c) : s \in {t \in shorter : Len(t) = n - 1}, c \in Alphabet}

HexValue ==
  "0" :> 0 @@ "1" :> 1 @@ "2" :> 2 @@ "3" :> 3 @@ "4" :> 4 @@ "5" :> 5 @@
  "6" :> 6 @@ "7" :> 7 @@ "8" :> 8 @@ "9" :> 9 @@
  "a" :> 10 @@ "b" :> 11 @@ "c" :> 12 @@ "d" :> 13 @@ "e" :> 14 @@ "f" :> 15 @@
  "A" :> 10 @@ "B" :> 11 @@ "C" :> 12 @@ "D" :> 13 @@ "E" :> 14 @@ "F" :> 15

IsHexDigit(c) == c \in DOMAIN HexValue

IsSpace(c) == c = " "

\* str.startswith('0x')
startswith_0x(s) == Len(s) >= 2 /\ s[1] = "0" /\ s[2] = "x"

\* s[2:]
slice_from_2(s) == SubSeq(s, 3, Len(s))

Ok(v) == [ok |-> TRUE, val |-> v]
Raise(e) == [ok |-> FALSE, val |-> <<e>>]

(***************************************************************************)
(* bytes.fromhex: two hex digits per byte, blanks between bytes skipped;   *)
(* a lone digit or any other character raises ValueError.                  *)
(***************************************************************************)
RECURSIVE fromhex_at(_, _, _)
fromhex_at(s, i, acc) ==
  IF i > Len(s) THEN Ok(acc)
  ELSE IF IsSpace(s[i]) THEN fromhex_at(s, i + 1, acc)
  ELSE IF i + 1 > Len(s) THEN Raise("ValueError")
  ELSE IF ~(IsHexDigit(s[i]) /\ IsHexDigit(s[i + 1])) THEN Raise("ValueError")
  ELSE fromhex_at(s, i + 2, Append(acc, 16 * HexValue[s[i]] + HexValue[s[i + 1]]))

bytes_fromhex(s) == fromhex_at(s, 1, <<>>)

\* a decoder that leaves the marker in place
swapData_bytes_unstripped(s) == bytes_fromhex(s)

\* create_order / change_order: the swapData field
swapData_bytes(s) ==
  IF startswith_0x(s) THEN bytes_fromhex(slice_from_2(s)) ELSE bytes_fromhex(s)

\* close_orders: proof and publicValues
proof_bytes(s) ==
  bytes_fromhex(IF startswith_0x(s) THEN slice_from_2(s) ELSE s)

(***************************************************************************)
(* Web3.to_checksum_address: a hex string of AddrHexLen digits, with or    *)
(* without the marker and in any letter case, becomes the marker followed  *)
(* by the digits in checksum case; anything else raises.  The checksum     *)
(* case of a letter depends on a hash of the lower-cased digits; the hash  *)
(* is modelled by the digit sum.                                           *)
(***************************************************************************)
ToLower(c) ==
  CASE c = "A" -> "a" [] c = "B" -> "b" [] c = "C" -> "c"
    [] c = "D" -> "d" [] c = "E" -> "e" [] c = "F" -> "f" [] c = "X" -> "x"
    [] OTHER -> c

ToUpper(c) ==
  CASE c = "a" -> "A" [] c = "b" -> "B" [] c = "c" -> "C"
    [] c = "d" -> "D" [] c = "e" -> "E" [] c = "f" -> "F"
    [] OTHER -> c

Lower(s) == [i \in 1..Len(s) |-> ToLower(s[i])]

RECURSIVE DigitSum(_)
DigitSum(s) == IF s = <<>> THEN 0 ELSE HexValue[Head(s)] + DigitSum(Tail(s))

ChecksumCase(digits) ==
  LET h == DigitSum(digits)
  IN  [i \in 1..Len(digits) |->
         IF (h + i) % 2 = 1 THEN ToUpper(digits[i]) ELSE digits[i]]

to_checksum_address(s) ==
  LET low    == Lower(s)
      digits == IF startswith_0x(low) THEN slice_from_2(low) ELSE low
  IN  IF Len(digits) = AddrHexLen /\ \A i \in 1..Len(digits) : IsHexDigit(digits[i])
      THEN Ok(Str0x \o ChecksumCase(digits))
      ELSE Raise("ValueError")

\* the literal '0x0000000000000000000000000000000000000000'
ZERO_ADDRESS == Str0x \o Rep("0", AddrHexLen)

(***************************************************************************)
(* int(): base-10 digits to a number; anything else raises ValueError.     *)
(***************************************************************************)
DecValue ==
  "0" :> 0 @@ "1" :> 1 @@ "2" :> 2 @@ "3" :> 3 @@ "4" :> 4 @@
  "5" :> 5 @@ "6" :> 6 @@ "7" :> 7 @@ "8" :> 8 @@ "9" :> 9

RECURSIVE int_at(_, _, _)
int_at(s, i, acc) ==
  IF i > Len(s) THEN Ok(acc)
  ELSE IF s[i] \notin DOMAIN DecValue THEN Raise("ValueError")
  ELSE int_at(s, i + 1, 10 * acc + DecValue[s[i]])

int(s) == IF s = <<>> THEN Raise("ValueError") ELSE int_at(s, 1, 0)

\* the truth value Python gives to an optional string argument
Truthy(v) == v # None /\ v # <<>>

\* an assembly that never looks at the flag
outToken_field_ignored(outToken) == Ok(ZERO_ADDRESS)

\* the outToken entry of the transfer dictionary
outToken_field(outToken) ==
  IF Truthy(outToken) THEN to_checksum_address(outToken) ELSE Ok(ZERO_ADDRESS)

(***************************************************************************)
(* The transfer dictionary of create_order and change_order.  Its entries  *)
(* are evaluated in order and the first one that raises ends the handler.  *)
(***************************************************************************)
transfer_intent(a) ==
  LET recipient == to_checksum_address(a.recipient)
      chainId   == int(a.chainId)
      acrossFee == int(a.acrossFee)
      outToken  == outToken_field(a.outToken)
      minOut    == int(a.minOutputPerUSDT)
      swapData  == swapData_bytes(a.swapData)
  IN  IF ~recipient.ok THEN Raise("recipient")
      ELSE IF ~chainId.ok THEN Raise("chainId")
      ELSE IF ~acrossFee.ok THEN Raise("acrossFee")
      ELSE IF ~outToken.ok THEN Raise("outToken")
      ELSE IF ~minOut.ok THEN Raise("minOutputPerUSDT")
      ELSE IF ~swapData.ok THEN Raise("swapData")
      ELSE Ok([recipient        |-> recipient.val,
               chainId          |-> chainId.val,
               acrossFee        |-> acrossFee.val,
               doSwap           |-> a.doSwap,
               outToken         |-> outToken.val,
               minOutputPerUSDT |-> minOut.val,
               fixedOutput      |-> a.fixedOutput,
               swapData         |-> swapData.val])

\* a normalization that prefixes the marker whatever the input
order_id_norm_always_prefixing(x) == Str0x \o x

\* order_id = x if x.startswith('0x') else '0x' + x
order_id_norm(x) == IF startswith_0x(x) THEN x ELSE Str0x \o x

\* [order_id if order_id.startswith('0x') else '0x' + order_id for order_id in args.orderIds]
order_ids_norm(ids) == [i \in DOMAIN ids |-> order_id_norm(ids[i])]

(***************************************************************************)
(* The command line.                                                       *)
(***************************************************************************)
DeployCommands == {"deploy", "deployMockUSDT"}

MockCommands == {"deployMockUSDT", "mintMockUSDT"}

\* the handlers that start with initialize_write_variables() alone
CoreWriteCommands ==
  {"createOrder", "setProvider", "changeOrder", "stopOrder", "fulfill",
   "closeOrders", "setZKVariables", "setTransfersVariables",
   "setFeesVariables", "setCoreVariables"}

ReadCommands ==
  {"providers", "isReceiverBusy", "receiverOwners", "orders", "blockId",
   "actionChainTip", "latestExecutedAction", "stateHash", "maxOrderSize",
   "requiredCollateral", "calculateFulfillerTotal"}

Commands == DeployCommands \cup {"mintMockUSDT"} \cup CoreWriteCommands \cup ReadCommands

\* the subcommands with at least one required=True flag
HasRequiredFlags ==
  {"mintMockUSDT"} \cup CoreWriteCommands \cup
  {"providers", "isReceiverBusy", "receiverOwners", "orders", "calculateFulfillerTotal"}

\* the handlers whose argument conversion can raise (addresses, integers, hex)
CanRaiseOnArgs ==
  (CoreWriteCommands \ {"stopOrder"}) \cup {"providers", "isReceiverBusy", "receiverOwners"}

IntentCommands == {"createOrder", "changeOrder"}

\* the untyped optional flags of createOrder / changeOrder as typed on the
\* command line; None stands for a flag that is not given
NoOptions ==
  [acrossFee |-> None, doSwap |-> FALSE, outToken |-> None,
   minOutputPerUSDT |-> None, fixedOutput |-> FALSE, swapData |-> None]

\* argparse: default='0', action='store_true', no default, default=''
parse_defaults(raw) ==
  [cmd              |-> raw.cmd,
   recipient        |-> raw.recipient,
   chainId          |-> raw.chainId,
   acrossFee        |-> IF raw.opts.acrossFee = None THEN <<"0">> ELSE raw.opts.acrossFee,
   doSwap           |-> raw.opts.doSwap,
   outToken         |-> raw.opts.outToken,
   minOutputPerUSDT |-> IF raw.opts.minOutputPerUSDT = None THEN <<"0">>
                        ELSE raw.opts.minOutputPerUSDT,
   fixedOutput      |-> raw.opts.fixedOutput,
   swapData         |-> IF raw.opts.swapData = None THEN <<>> ELSE raw.opts.swapData,
   wellformed       |-> raw.wellformed]

\* a parser whose flags are all optional
parse_args_lenient(raw) ==
  IF raw.cmd = "" THEN "help"
  ELSE IF raw.cmd \notin Commands THEN "error"
  ELSE "run"

\* parser.parse_args(): "error" is argparse's usage message and exit status 2,
\* "help" is the branch without a func attribute, "run" calls args.func(args)
parse_args(raw) ==
  IF raw.cmd = "" THEN "help"
  ELSE IF raw.cmd \notin Commands THEN "error"
  ELSE IF raw.cmd \in HasRequiredFlags /\ ~raw.complete THEN "error"
  ELSE "run"

(***************************************************************************)
(* The handlers, as the sequence of their statements.  A step names the    *)
(* operation (op), its parameters (a, b) and the module globals it reads   *)
(* (uses): reading a global that no earlier statement of the run has       *)
(* assigned raises NameError.                                              *)
(***************************************************************************)
Step(op, a, b, uses) == [op |-> op, a |-> a, b |-> b, uses |-> uses]

CORE_JSON == "UntronCore.json"
PROXY_JSON == "ERC1967Proxy.json"
MOCK_JSON == "MockUSDT.json"

ArtifactFiles == {CORE_JSON, PROXY_JSON, MOCK_JSON}

initialize_rpc_variables == <<Step("init_rpc", "", "", {"config"})>>

\* the existence check of load_contract_file, then the read
load_contract_file == <<Step("load", CORE_JSON, "checked", {})>>

initialize_read_variables ==
  initialize_rpc_variables \o load_contract_file
    \o <<Step("bind", "", "", {"zk_web3", "UNTRON_CORE_ADDRESS"})>>

\* PRIVATE_KEY and account are assigned before zk_web3 is read
initialize_write_variables == <<Step("init_write", "", "", {"config"})>>

\* nonce, gas price, builder, estimate, sign, send, wait
fetch(block) ==
  <<Step("nonce", block, "", {"zk_web3", "account"}),
    Step("gas_price", "", "", {"zk_web3"})>>

\* a pipeline that signs before it estimates
submit_signing_first(kind, to, uses) ==
  <<Step("build", kind, to, {"zk_web3"} \cup uses),
    Step("sign", "", "", {"signer"}),
    Step("estimate", "", "", {"zk_web3"}),
    Step("send", "", "", {"zk_web3"}),
    Step("wait", "", "", {"zk_web3"})>>

submit(kind, to, uses) ==
  <<Step("build", kind, to, {"zk_web3"} \cup uses),
    Step("estimate", "", "", {"zk_web3"}),
    Step("sign", "", "", {"signer"}),
    Step("send", "", "", {"zk_web3"}),
    Step("wait", "", "", {"zk_web3"})>>

deploy_implementation ==
  fetch("pending") \o submit("create", "", {"account"})
    \o <<Step("return_address", "implementation_address", "", {})>>

deploy_proxy ==
  <<Step("load", PROXY_JSON, "checked", {})>>
    \o fetch("pending") \o submit("create2", "", {"account"})
    \o <<Step("return_address", "proxy_address", "", {})>>

\* a deployment that creates the proxy before the implementation
deploy_untron_proxy_first ==
  initialize_rpc_variables \o initialize_write_variables \o load_contract_file
    \o deploy_proxy
    \o <<Step("print", "UntronCore proxy deployed at", "proxy_address", {})>>
    \o deploy_implementation
    \o <<Step("print", "UntronCore implementation deployed at", "implementation_address", {}),
         Step("write_config", "", "", {"config"})>>
    \o initialize_read_variables
    \o <<Step("print", "Deployment complete.", "", {})>>

deploy_untron ==
  initialize_rpc_variables \o initialize_write_variables \o load_contract_file
    \o deploy_implementation
    \o <<Step("print", "UntronCore implementation deployed at", "implementation_address", {})>>
    \o deploy_proxy
    \o <<Step("print", "UntronCore proxy deployed at", "proxy_address", {}),
         Step("write_config", "", "", {"config"})>>
    \o initialize_read_variables
    \o <<Step("print", "Deployment complete.", "", {})>>

deploy_mock_usdt ==
  initialize_rpc_variables \o initialize_write_variables
    \o fetch("pending")
    \o <<Step("load", MOCK_JSON, "unchecked", {})>>
    \o submit("create", "", {"account"})
    \o <<Step("return_address", "contract_address", "", {}),
         Step("print", "Deployed mock USDT at", "contract_address", {})>>

mint_mock_usdt ==
  initialize_rpc_variables \o initialize_write_variables
    \o fetch("pending")
    \o <<Step("load", MOCK_JSON, "unchecked", {}),
         Step("encode", "mint", "mock_usdt_encoder", {"zk_web3", "account"})>>
    \o submit("call", "args.address", {"account"})
    \o <<Step("print", "Transaction sent. Receipt:", "tx_receipt", {}),
         Step("print", "Minted 1000 USDT to", "account.address", {"account"})>>

\* create_order .. set_core_variables: the same statements, with their own
\* method name and message
core_write(method, message) ==
  initialize_write_variables
    \o <<Step("normalize", "", "", {})>>
    \o fetch("latest")
    \o <<Step("encode", method, "untron_encoder", {"untron_encoder"})>>
    \o submit("call", "UNTRON_CORE_ADDRESS", {"account", "signer", "UNTRON_CORE_ADDRESS"})
    \o <<Step("print", message, "tx_receipt", {})>>

WriteMessage(cmd) ==
  CASE cmd = "stopOrder" -> "Order stopped. Receipt:"
    [] cmd = "fulfill" -> "Orders fulfilled. Receipt:"
    [] cmd = "closeOrders" -> "Orders closed. Receipt:"
    [] cmd = "setZKVariables" -> "ZK variables set. Receipt:"
    [] cmd = "setTransfersVariables" -> "Transfers variables set. Receipt:"
    [] cmd = "setFeesVariables" -> "Fees variables set. Receipt:"
    [] cmd = "setCoreVariables" -> "Core variables set. Receipt:"
    [] OTHER -> "Transaction sent. Receipt:"

ReadMessage(cmd) ==
  CASE cmd = "providers" -> "Provider details:"
    [] cmd = "isReceiverBusy" -> "Is receiver busy:"
    [] cmd = "receiverOwners" -> "Receiver owner:"
    [] cmd = "orders" -> "Order details:"
    [] cmd = "blockId" -> "Current block ID:"
    [] cmd = "actionChainTip" -> "Current action chain tip:"
    [] cmd = "latestExecutedAction" -> "Latest executed action:"
    [] cmd = "stateHash" -> "Current state hash:"
    [] cmd = "maxOrderSize" -> "Maximum order size:"
    [] cmd = "requiredCollateral" -> "Required collateral:"
    [] OTHER -> "Fulfiller total - Expense, Profit:"

\* a read handler that starts like a write handler
core_read_with_signer(method) ==
  initialize_rpc_variables \o initialize_write_variables \o load_contract_file
    \o <<Step("bind", "", "", {"zk_web3", "UNTRON_CORE_ADDRESS"})>>
    \o (IF method \in HasRequiredFlags THEN <<Step("normalize", "", "", {})>> ELSE <<>>)
    \o <<Step("view_call", method, "", {"untron_core_contract"}),
         Step("print", ReadMessage(method), "result", {})>>

\* providers .. calculate_fulfiller_total; the handlers without an argument
\* have no conversion statement
core_read(method) ==
  initialize_read_variables
    \o (IF method \in HasRequiredFlags THEN <<Step("normalize", "", "", {})>> ELSE <<>>)
    \o <<Step("view_call", method, "", {"untron_core_contract"}),
         Step("print", ReadMessage(method), "result", {})>>

\* set_defaults(func=...): the handler of each subcommand
Program(cmd) ==
  CASE cmd = "deploy" -> deploy_untron
    [] cmd = "deployMockUSDT" -> deploy_mock_usdt
    [] cmd = "mintMockUSDT" -> mint_mock_usdt
    [] cmd \in CoreWriteCommands -> core_write(cmd, WriteMessage(cmd))
    [] OTHER -> core_read(cmd)

(***************************************************************************)
(* State.                                                                  *)
(***************************************************************************)
VARIABLES
  proc,        \* per invocation (process): its arguments, position and variables
  chain,       \* the node: the signer's confirmed nonce, the pool, the mined
  configFile,  \* config.json on disk
  files,       \* the contract artifact files present on disk
  normArg,     \* argument handed to a conversion function
  normRes      \* what the conversion returned or raised

vars == <<proc, chain, configFile, files, normArg, normRes>>

Procs == DOMAIN proc

NoAddress == <<"", 0>>

SIGNER == <<"account", 0>>

NoTx ==
  [kind |-> "none", nonce |-> -1, from |-> NoAddress, to |-> NoAddress,
   code |-> "", arg |-> NoAddress, gas_limit |-> -1, gas_price |-> -1,
   salt |-> -1, signed |-> FALSE]

NoReceipt == [found |-> FALSE, tx |-> NoTx, contractAddress |-> NoAddress]

NoConfig ==
  [untron_core_address |-> NoAddress, zksync_rpc |-> "", private_key |-> ""]

InitialConfig ==
  [untron_core_address |-> <<"configured", 0>>, zksync_rpc |-> "rpc", private_key |-> "key"]

NoLocals ==
  [implementation_address |-> NoAddress, proxy_address |-> NoAddress,
   contract_address |-> NoAddress]

EmptyRaw ==
  [cmd |-> "", complete |-> TRUE, wellformed |-> TRUE,
   recipient |-> <<>>, chainId |-> <<>>, opts |-> NoOptions]

NewProcess(raw) ==
  [raw |-> raw, args |-> parse_defaults(EmptyRaw), pc |-> "import", ip |-> 0,
   exit |-> -1, error |-> "", stdout |-> <<>>, net |-> <<>>,
   globals |-> {}, config |-> NoConfig,
   UNTRON_CORE_ADDRESS |-> NoAddress, ZKSYNC_URL |-> "", PRIVATE_KEY |-> "",
   nonce |-> -1, gas_price |-> -1, call_data |-> "", tx |-> NoTx,
   estimate_gas |-> -1, msg |-> NoTx, tx_hash |-> NoTx, elapsed |-> 0,
   tx_receipt |-> NoReceipt, locals |-> NoLocals, result |-> NoAddress,
   transfer |-> Raise("unassigned")]

CurStep(r) == Program(r.raw.cmd)[r.ip]

At(p, op) == proc[p].pc = "handler" /\ CurStep(proc[p]).op = op

\* the next statement; falling off the handler's end is exit status 0
Advance(r) ==
  IF r.ip = Len(Program(r.raw.cmd))
  THEN [r EXCEPT !.pc = "exited", !.exit = 0]
  ELSE [r EXCEPT !.ip = @ + 1]

\* an uncaught exception: traceback, exit status 1
Throw(r, e) == [r EXCEPT !.pc = "exited", !.exit = 1, !.error = e]

\* sys.exit(1) after a message
sys_exit(r, message) ==
  [r EXCEPT !.pc = "exited", !.exit = 1,
            !.stdout = Append(@, [text |-> message, val |-> NoAddress])]

Called(r, call) == [r EXCEPT !.net = Append(@, call)]

NameErrorAt(r) == CurStep(r).uses \ r.globals # {}

\* a statement that only touches the invocation's own variables
Local(p, r) ==
  /\ proc' = [proc EXCEPT ![p] = r]
  /\ UNCHANGED <<chain, configFile, files, normArg, normRes>>

(***************************************************************************)
(* Module import and main().                                               *)
(***************************************************************************)
\* with open('config.json', 'r') as f: config = json.load(f)
ImportModule(p) ==
  /\ proc[p].pc = "import"
  /\ Local(p, [proc[p] EXCEPT !.pc = "main", !.config = configFile,
                              !.globals = @ \cup {"config"}])

\* args = parser.parse_args(); args.func(args) or parser.print_help()
main_step(r) ==
  LET outcome == parse_args(r.raw)
  IN  CASE outcome = "error" ->
             [r EXCEPT !.pc = "exited", !.exit = 2,
                       !.stdout = Append(@, [text |-> "usage", val |-> NoAddress])]
        [] outcome = "help" ->
             [r EXCEPT !.pc = "exited", !.exit = 0,
                       !.stdout = Append(@, [text |-> "usage", val |-> NoAddress])]
        [] OTHER ->
             [r EXCEPT !.pc = "handler", !.ip = 1, !.args = parse_defaults(r.raw)]

Main(p) ==
  /\ proc[p].pc = "main"
  /\ Local(p, main_step(proc[p]))

(***************************************************************************)
(* The initialisation functions and the artifact files.                    *)
(***************************************************************************)
init_rpc_step(r) ==
  IF NameErrorAt(r) THEN Throw(r, "NameError")
  ELSE Advance([r EXCEPT !.UNTRON_CORE_ADDRESS = r.config.untron_core_address,
                         !.ZKSYNC_URL = r.config.zksync_rpc,
                         !.globals = @ \cup {"UNTRON_CORE_ADDRESS", "ZKSYNC_URL", "zk_web3"}])

InitRpc(p) ==
  /\ At(p, "init_rpc")
  /\ Local(p, init_rpc_step(proc[p]))

\* PRIVATE_KEY, account, then signer = PrivateKeyEthSigner(account, zk_web3.eth.chain_id)
init_write_step(r, rpc_ok) ==
  LET keyed == [r EXCEPT !.PRIVATE_KEY = r.config.private_key,
                         !.globals = @ \cup {"PRIVATE_KEY", "account"}]
  IN  IF NameErrorAt(r) THEN Throw(r, "NameError")
      ELSE IF "zk_web3" \notin r.globals THEN Throw(keyed, "NameError")
      ELSE IF ~rpc_ok THEN Throw(Called(keyed, "chain_id"), "RpcError")
      ELSE Advance([Called(keyed, "chain_id") EXCEPT !.globals = @ \cup {"signer"}])

InitWrite(p) ==
  /\ At(p, "init_write")
  /\ \E rpc_ok \in BOOLEAN : Local(p, init_write_step(proc[p], rpc_ok))

NotFoundMessage(file) ==
  IF file = CORE_JSON THEN "ABI file 'UntronCore.json' not found."
  ELSE "ABI file 'ERC1967Proxy.json' not found."

\* a checked load prints and exits when Path.exists() is false; an unchecked
\* one is json.load(open(...)), which raises FileNotFoundError
load_step(r, present) ==
  LET st == CurStep(r)
  IN  IF st.a \in present THEN Advance(r)
      ELSE IF st.b = "checked" THEN sys_exit(r, NotFoundMessage(st.a))
      ELSE Throw(r, "FileNotFoundError")

Load(p) ==
  /\ At(p, "load")
  /\ Local(p, load_step(proc[p], files))

\* untron_core_contract = zk_web3.eth.contract(...); untron_encoder = ContractEncoder(...)
bind_step(r) ==
  IF NameErrorAt(r) THEN Throw(r, "NameError")
  ELSE Advance([r EXCEPT !.globals = @ \cup {"untron_core_contract", "untron_encoder"}])

Bind(p) ==
  /\ At(p, "bind")
  /\ Local(p, bind_step(proc[p]))

\* the argument conversions of a handler
normalize_step(r) ==
  LET intent == transfer_intent(r.args)
  IN  IF r.raw.cmd \in IntentCommands
      THEN IF r.raw.wellformed /\ intent.ok
           THEN Advance([r EXCEPT !.transfer = intent])
           ELSE Throw(r, "ValueError")
      ELSE IF r.raw.cmd \in CanRaiseOnArgs /\ ~r.raw.wellformed THEN Throw(r, "ValueError")
      ELSE Advance(r)

Normalize(p) ==
  /\ At(p, "normalize")
  /\ Local(p, normalize_step(proc[p]))

(***************************************************************************)
(* The node, as the tool sees it.                                          *)
(***************************************************************************)
\* the pool's transactions that can still be mined
Pending(ch) == {t \in ch.pool : t.nonce >= ch.latest}

\* a count that leaves out the pool
get_transaction_count_latest(ch, block) == ch.latest

\* zk_web3.zksync.get_transaction_count(account.address, block)
get_transaction_count(ch, block) ==
  IF block = "pending" THEN ch.latest + Cardinality(Pending(ch)) ELSE ch.latest

GasPrices == {7}

GasEstimates == 1..MaxGas

Salts == 0..MaxSalt

ViewValues == {0, 1}

\* the address a mined creation gets
created_address(t) ==
  CASE t.kind = "create" -> <<"create", t.nonce>>
    [] t.kind = "create2" -> <<"create2", t.salt>>
    [] OTHER -> NoAddress

(***************************************************************************)
(* The transaction pipeline.                                               *)
(***************************************************************************)
nonce_step(r, ch, rpc_ok) ==
  IF NameErrorAt(r) THEN Throw(r, "NameError")
  ELSE IF ~rpc_ok THEN Throw(Called(r, "get_transaction_count"), "RpcError")
  ELSE Advance([Called(r, "get_transaction_count") EXCEPT
                  !.nonce = get_transaction_count(ch, CurStep(r).a)])

FetchNonce(p) ==
  /\ At(p, "nonce")
  /\ \E rpc_ok \in BOOLEAN : Local(p, nonce_step(proc[p], chain, rpc_ok))

gas_price_step(r, price, rpc_ok) ==
  IF NameErrorAt(r) THEN Throw(r, "NameError")
  ELSE IF ~rpc_ok THEN Throw(Called(r, "gas_price"), "RpcError")
  ELSE Advance([Called(r, "gas_price") EXCEPT !.gas_price = price])

FetchGasPrice(p) ==
  /\ At(p, "gas_price")
  /\ \E rpc_ok \in BOOLEAN, price \in GasPrices :
       Local(p, gas_price_step(proc[p], price, rpc_ok))

\* untron_encoder.encode_method(...) / mock_usdt_encoder.encode_method("mint", ...)
encode_step(r) ==
  IF NameErrorAt(r) THEN Throw(r, "NameError")
  ELSE Advance([r EXCEPT !.call_data = CurStep(r).a])

Encode(p) ==
  /\ At(p, "encode")
  /\ Local(p, encode_step(proc[p]))

\* a builder that gives no transaction a salt
unsigned_tx_unsalted(r, kind, to, salt) ==
  [kind      |-> kind,
   nonce     |-> r.nonce,
   from      |-> SIGNER,
   to        |-> IF kind # "call" THEN NoAddress
                 ELSE IF to = "UNTRON_CORE_ADDRESS" THEN r.UNTRON_CORE_ADDRESS
                 ELSE <<"args.address", 0>>,
   code      |-> IF kind = "call" THEN r.call_data
                 ELSE IF kind = "create2" THEN PROXY_JSON
                 ELSE IF r.raw.cmd = "deploy" THEN CORE_JSON ELSE MOCK_JSON,
   arg       |-> IF kind = "create2" THEN r.locals.implementation_address ELSE NoAddress,
   gas_limit |-> 0,
   gas_price |-> r.gas_price,
   salt      |-> -1,
   signed    |-> FALSE]

\* TxCreateContract / TxCreate2Contract / TxFunctionCall with gas_limit=0;
\* only TxCreate2Contract is given a salt
unsigned_tx(r, kind, to, salt) ==
  [kind      |-> kind,
   nonce     |-> r.nonce,
   from      |-> SIGNER,
   to        |-> IF kind # "call" THEN NoAddress
                 ELSE IF to = "UNTRON_CORE_ADDRESS" THEN r.UNTRON_CORE_ADDRESS
                 ELSE <<"args.address", 0>>,
   code      |-> IF kind = "call" THEN r.call_data
                 ELSE IF kind = "create2" THEN PROXY_JSON
                 ELSE IF r.raw.cmd = "deploy" THEN CORE_JSON ELSE MOCK_JSON,
   arg       |-> IF kind = "create2" THEN r.locals.implementation_address ELSE NoAddress,
   gas_limit |-> 0,
   gas_price |-> r.gas_price,
   salt      |-> IF kind = "create2" THEN salt ELSE -1,
   signed    |-> FALSE]

build_step(r, salt, rpc_ok) ==
  LET st == CurStep(r)
  IN  IF NameErrorAt(r) THEN Throw(r, "NameError")
      ELSE IF ~rpc_ok THEN Throw(Called(r, "chain_id"), "RpcError")
      ELSE Advance([Called(r, "chain_id") EXCEPT !.tx = unsigned_tx(r, st.a, st.b, salt)])

Build(p) ==
  /\ At(p, "build")
  /\ \E rpc_ok \in BOOLEAN :
     \E salt \in (IF CurStep(proc[p]).a = "create2" THEN Salts ELSE {-1}) :
       Local(p, build_step(proc[p], salt, rpc_ok))

\* an estimation whose failure is swallowed: the placeholder is used instead
estimate_step_swallowing(r, gas, rpc_ok) ==
  IF NameErrorAt(r) THEN Throw(r, "NameError")
  ELSE IF ~rpc_ok THEN Advance([Called(r, "eth_estimate_gas") EXCEPT !.estimate_gas = 0])
  ELSE Advance([Called(r, "eth_estimate_gas") EXCEPT !.estimate_gas = gas])

\* estimate_gas = zk_web3.zksync.eth_estimate_gas(tx): a number, or an error
estimate_step(r, gas, rpc_ok) ==
  IF NameErrorAt(r) THEN Throw(r, "NameError")
  ELSE IF ~rpc_ok THEN Throw(Called(r, "eth_estimate_gas"), "RpcError")
  ELSE Advance([Called(r, "eth_estimate_gas") EXCEPT !.estimate_gas = gas])

Estimate(p) ==
  /\ At(p, "estimate")
  /\ \E rpc_ok \in BOOLEAN, gas \in GasEstimates :
       Local(p, estimate_step(proc[p], gas, rpc_ok))

\* tx_712 = tx712(estimate_gas); msg = tx_712.encode(signer.sign_typed_data(...))
sign_step(r) ==
  IF NameErrorAt(r) THEN Throw(r, "NameError")
  ELSE Advance([r EXCEPT !.msg = [r.tx EXCEPT !.gas_limit = r.estimate_gas,
                                              !.signed = TRUE]])

Sign(p) ==
  /\ At(p, "sign")
  /\ Local(p, sign_step(proc[p]))

\* a broadcast that is tried again when the node refuses it
send_step_retrying(r, accepted) ==
  IF NameErrorAt(r) THEN Throw(r, "NameError")
  ELSE IF ~accepted THEN Called(r, "send_raw_transaction")
  ELSE Advance([Called(r, "send_raw_transaction") EXCEPT !.tx_hash = r.msg, !.elapsed = 0])

\* tx_hash = send_raw_transaction(msg): the node takes the transaction into its
\* pool, or answers with an error
send_step(r, accepted) ==
  IF NameErrorAt(r) THEN Throw(r, "NameError")
  ELSE IF ~accepted THEN Throw(Called(r, "send_raw_transaction"), "RpcError")
  ELSE Advance([Called(r, "send_raw_transaction") EXCEPT !.tx_hash = r.msg, !.elapsed = 0])

Send(p) ==
  /\ At(p, "send")
  /\ \E accepted \in {a \in BOOLEAN : a => proc[p].msg.nonce >= chain.latest} :
       /\ proc' = [proc EXCEPT ![p] = send_step(proc[p], accepted)]
       /\ chain' = IF accepted /\ ~NameErrorAt(proc[p])
                   THEN [chain EXCEPT !.pool = @ \cup {proc[p].msg}]
                   ELSE chain
  /\ UNCHANGED <<configFile, files, normArg, normRes>>

\* a wait that carries on as if the receipt had come when the time is up
wait_step_without_timeout(r, ch, rpc_ok) ==
  IF ~rpc_ok THEN Throw(r, "RpcError")
  ELSE IF r.tx_hash \in ch.mined
  THEN Advance([r EXCEPT !.elapsed = 0,
                         !.tx_receipt = [found |-> TRUE, tx |-> r.tx_hash,
                                         contractAddress |-> created_address(r.tx_hash)]])
  ELSE IF r.elapsed + 1 >= timeout * polls_per_unit
  THEN Advance([r EXCEPT !.elapsed = @ + 1])
  ELSE [r EXCEPT !.elapsed = @ + 1]

\* a wait that notes the timeout and starts waiting again
wait_step_retrying(r, ch, rpc_ok) ==
  IF ~rpc_ok THEN Throw(r, "RpcError")
  ELSE IF r.tx_hash \in ch.mined
  THEN Advance([r EXCEPT !.elapsed = 0,
                         !.tx_receipt = [found |-> TRUE, tx |-> r.tx_hash,
                                         contractAddress |-> created_address(r.tx_hash)]])
  ELSE IF r.elapsed + 1 >= timeout * polls_per_unit
  THEN [r EXCEPT !.elapsed = 0, !.error = "TimeExhausted"]
  ELSE [r EXCEPT !.elapsed = @ + 1]

\* a wait without a deadline: when the time is up its clock starts again, and
\* it keeps asking for as long as there is no receipt
wait_step_without_deadline(r, ch, rpc_ok) ==
  IF ~rpc_ok THEN Throw(r, "RpcError")
  ELSE IF r.tx_hash \in ch.mined
  THEN Advance([r EXCEPT !.elapsed = 0,
                         !.tx_receipt = [found |-> TRUE, tx |-> r.tx_hash,
                                         contractAddress |-> created_address(r.tx_hash)]])
  ELSE IF r.elapsed + 1 >= timeout * polls_per_unit
  THEN [r EXCEPT !.elapsed = 0]
  ELSE [r EXCEPT !.elapsed = @ + 1]

\* one round of wait_for_transaction_receipt(tx_hash, timeout=240, poll_latency=0.5):
\* ask for the receipt; without one, sleep poll_latency and raise TimeExhausted
\* once the timeout has passed
wait_step(r, ch, rpc_ok) ==
  IF NameErrorAt(r) THEN Throw(r, "NameError")
  ELSE IF ~rpc_ok THEN Throw(r, "RpcError")
  ELSE IF r.tx_hash \in ch.mined
  THEN Advance([r EXCEPT !.elapsed = 0,
                         !.tx_receipt = [found |-> TRUE, tx |-> r.tx_hash,
                                         contractAddress |-> created_address(r.tx_hash)]])
  ELSE IF r.elapsed + 1 >= timeout * polls_per_unit
  THEN Throw([r EXCEPT !.elapsed = @ + 1], "TimeExhausted")
  ELSE [r EXCEPT !.elapsed = @ + 1]

Wait(p) ==
  /\ At(p, "wait")
  /\ \E rpc_ok \in BOOLEAN : Local(p, wait_step(proc[p], chain, rpc_ok))

\* return tx_receipt["contractAddress"], assigned by the caller
return_address_step(r) ==
  Advance([r EXCEPT !.locals = [@ EXCEPT ![CurStep(r).a] = r.tx_receipt.contractAddress]])

ReturnAddress(p) ==
  /\ At(p, "return_address")
  /\ Local(p, return_address_step(proc[p]))

(***************************************************************************)
(* Output, the configuration file and view calls.                          *)
(***************************************************************************)
\* the value a print statement formats
printed_value(r, name) ==
  CASE name = "tx_receipt" -> <<"receipt", r.tx_receipt.tx.nonce>>
    [] name = "result" -> r.result
    [] name = "account.address" -> SIGNER
    [] name \in DOMAIN NoLocals -> r.locals[name]
    [] OTHER -> NoAddress

print_step(r) ==
  LET st == CurStep(r)
  IN  IF NameErrorAt(r) THEN Throw(r, "NameError")
      ELSE Advance([r EXCEPT !.stdout = Append(@, [text |-> st.a,
                                                   val |-> printed_value(r, st.b)])])

PrintLine(p) ==
  /\ At(p, "print")
  /\ Local(p, print_step(proc[p]))

\* a rewrite that loses the key
updated_config_dropping_key(cfg, proxy_address) ==
  [cfg EXCEPT !.untron_core_address = proxy_address, !.private_key = ""]

\* config['untron_core_address'] = proxy_address
updated_config(cfg, proxy_address) ==
  [cfg EXCEPT !.untron_core_address = proxy_address]

\* ... then json.dump(config, f, indent=4) into config.json
WriteConfig(p) ==
  /\ At(p, "write_config")
  /\ LET r   == proc[p]
         cfg == updated_config(r.config, r.locals.proxy_address)
     IN  /\ proc' = [proc EXCEPT ![p] = Advance([r EXCEPT !.config = cfg])]
         /\ configFile' = cfg
  /\ UNCHANGED <<chain, files, normArg, normRes>>

\* result = untron_core_contract.functions.<method>(...).call()
view_call_step(r, value, rpc_ok) ==
  IF NameErrorAt(r) THEN Throw(r, "NameError")
  ELSE IF ~rpc_ok THEN Throw(Called(r, "eth_call"), "RpcError")
  ELSE Advance([Called(r, "eth_call") EXCEPT !.result = <<"result", value>>])

ViewCall(p) ==
  /\ At(p, "view_call")
  /\ \E rpc_ok \in BOOLEAN, value \in ViewValues :
       Local(p, view_call_step(proc[p], value, rpc_ok))

(***************************************************************************)
(* The network: a pooled transaction whose nonce is the signer's next one  *)
(* is mined, at any time or never.                                         *)
(***************************************************************************)
Mine ==
  /\ \E t \in chain.pool :
       /\ t.nonce = chain.latest
       /\ chain' = [latest |-> chain.latest + 1,
                    pool   |-> chain.pool \ {t},
                    mined  |-> chain.mined \cup {t}]
  /\ UNCHANGED <<proc, configFile, files, normArg, normRes>>

(***************************************************************************)
(* One invocation of the tool.                                             *)
(***************************************************************************)
NoNorm == [op |-> "none", s |-> <<>>, ids |-> <<>>, raw |-> EmptyRaw]

NormPending == [done |-> FALSE, ok |-> FALSE, val |-> <<>>]

\* the address strings an invocation is given
LowerAddr == Str0x \o Rep("a", AddrHexLen)

UpperAddr == Str0x \o Rep("A", AddrHexLen)

BareAddr == Rep("a", AddrHexLen - 1) \o <<"F">>

BadAddr == <<"0", "x", "g">>

\* the command lines: any subcommand, a name that is none and no name at all;
\* required flags given or not; argument values that convert or not
Invocations ==
  {[cmd |-> c, complete |-> k, wellformed |-> w,
    recipient |-> LowerAddr, chainId |-> <<"1">>, opts |-> NoOptions] :
      c \in (Commands \ IntentCommands) \cup {"", "frobnicate"},
      k \in BOOLEAN, w \in BOOLEAN}
  \cup
  {[cmd |-> c, complete |-> k, wellformed |-> TRUE,
    recipient |-> LowerAddr, chainId |-> <<"1">>,
    opts |-> [NoOptions EXCEPT !.doSwap = d, !.fixedOutput = f, !.outToken = o]] :
      c \in IntentCommands, k \in BOOLEAN, d \in BOOLEAN, f \in BOOLEAN,
      o \in {None, <<>>, UpperAddr, BadAddr}}

\* flags that no statement of the handler looks at are left at one value
Relevant(raw) ==
  /\ raw.cmd \notin HasRequiredFlags => raw.complete
  /\ raw.cmd \notin CanRaiseOnArgs => raw.wellformed

\* the artifact files a handler opens
Opens(cmd) ==
  CASE cmd = "deploy" -> {CORE_JSON, PROXY_JSON}
    [] cmd \in MockCommands -> {MOCK_JSON}
    [] cmd \in ReadCommands -> {CORE_JSON}
    [] OTHER -> {}

InitChain == [latest : 0..MaxInitNonce, pool : {{}}, mined : {{}}]

Init ==
  /\ \E raw \in {i \in Invocations : Relevant(i)} :
       /\ proc = [p \in {1} |-> NewProcess(raw)]
       /\ files \in {ArtifactFiles \ absent : absent \in SUBSET Opens(raw.cmd)}
  /\ chain \in InitChain
  /\ configFile = InitialConfig
  /\ normArg = NoNorm
  /\ normRes = NormPending

Next ==
  \/ \E p \in Procs : ImportModule(p)
  \/ \E p \in Procs : Main(p)
  \/ \E p \in Procs : InitRpc(p)
  \/ \E p \in Procs : InitWrite(p)
  \/ \E p \in Procs : Load(p)
  \/ \E p \in Procs : Bind(p)
  \/ \E p \in Procs : Normalize(p)
  \/ \E p \in Procs : FetchNonce(p)
  \/ \E p \in Procs : FetchGasPrice(p)
  \/ \E p \in Procs : Encode(p)
  \/ \E p \in Procs : Build(p)
  \/ \E p \in Procs : Estimate(p)
  \/ \E p \in Procs : Sign(p)
  \/ \E p \in Procs : Send(p)
  \/ \E p \in Procs : Wait(p)
  \/ \E p \in Procs : ReturnAddress(p)
  \/ \E p \in Procs : PrintLine(p)
  \/ \E p \in Procs : WriteConfig(p)
  \/ \E p \in Procs : ViewCall(p)
  \/ Mine

Spec == Init /\ [][Next]_vars

(***************************************************************************)
(* A running invocation keeps running: the interpreter executes the next   *)
(* statement, and a sleeping poll wakes up.  Nothing obliges the node to   *)
(* mine.                                                                   *)
(***************************************************************************)
Run ==
  \E p \in Procs :
    \/ ImportModule(p) \/ Main(p) \/ InitRpc(p) \/ InitWrite(p) \/ Load(p) \/ Bind(p)
    \/ Normalize(p) \/ FetchNonce(p) \/ FetchGasPrice(p) \/ Encode(p) \/ Build(p)
    \/ Estimate(p) \/ Sign(p) \/ Send(p) \/ Wait(p) \/ ReturnAddress(p)
    \/ PrintLine(p) \/ WriteConfig(p) \/ ViewCall(p)

SpecLive == Init /\ [][Next]_vars /\ WF_vars(Run)

(***************************************************************************)
(* Two invocations at once, against the same signer and node.              *)
(***************************************************************************)
RaceProcs == {1, 2}

RaceCommands == {"deploy", "mintMockUSDT", "deployMockUSDT"}

InitRace ==
  /\ proc \in [RaceProcs -> {NewProcess(i) : i \in {j \in Invocations :
                   j.cmd \in RaceCommands /\ j.complete /\ j.wellformed}}]
  /\ files = ArtifactFiles
  /\ chain \in InitChain
  /\ configFile = InitialConfig
  /\ normArg = NoNorm
  /\ normRes = NormPending

\* each invocation is followed from its start to its first broadcast
NextRace ==
  \/ \E p \in Procs : ImportModule(p)
  \/ \E p \in Procs : Main(p)
  \/ \E p \in Procs : InitRpc(p)
  \/ \E p \in Procs : InitWrite(p)
  \/ \E p \in Procs : Load(p)
  \/ \E p \in Procs : FetchNonce(p)
  \/ \E p \in Procs : FetchGasPrice(p)
  \/ \E p \in Procs : Encode(p)
  \/ \E p \in Procs : Build(p)
  \/ \E p \in Procs : Estimate(p)
  \/ \E p \in Procs : Sign(p)
  \/ \E p \in Procs : Send(p)
  \/ Mine

SpecRace == InitRace /\ [][NextRace]_vars

(***************************************************************************)
(* The conversion functions on their own: an argument is drawn and the     *)
(* function the handler uses is applied to it.                             *)
(***************************************************************************)
HexInputs ==
  {[op |-> o, s |-> h, ids |-> <<>>, raw |-> EmptyRaw] :
     o \in {"swapData", "proof"}, h \in StringsUpTo(MaxHexLen)}

IntentRaws ==
  {[cmd |-> c, complete |-> TRUE, wellformed |-> TRUE, recipient |-> r, chainId |-> n,
    opts |-> [acrossFee |-> a, doSwap |-> d, outToken |-> o,
              minOutputPerUSDT |-> None, fixedOutput |-> f, swapData |-> w]] :
     c \in IntentCommands, r \in {LowerAddr, BadAddr}, n \in {<<"1">>, <<"g">>},
     a \in {None, <<"5">>}, d \in BOOLEAN, f \in BOOLEAN,
     o \in {None, <<>>, LowerAddr, UpperAddr, BareAddr, ZERO_ADDRESS, BadAddr},
     w \in {None, <<"0", "x", "a", "F">>, <<"g">>}}

IntentInputs == {[op |-> "intent", s |-> <<>>, ids |-> <<>>, raw |-> r] : r \in IntentRaws}

\* --orderId: one identifier; --orderIds (nargs='+'): a list of one or more
OrderIdInputs ==
  {[op |-> "orderId", s |-> h, ids |-> <<>>, raw |-> EmptyRaw] : h \in StringsUpTo(MaxHexLen)}
  \cup
  {[op |-> "orderIds", s |-> <<>>, ids |-> l, raw |-> EmptyRaw] :
     l \in UNION {[1..n -> StringsUpTo(2)] : n \in 1..2}}

Returned(res) == [done |-> TRUE, ok |-> res.ok, val |-> res.val]

InitNorm ==
  /\ proc = [p \in {} |-> NewProcess(EmptyRaw)]
  /\ files = ArtifactFiles
  /\ chain = [latest |-> 0, pool |-> {}, mined |-> {}]
  /\ configFile = InitialConfig
  /\ normArg \in HexInputs \cup IntentInputs \cup OrderIdInputs
  /\ normRes = NormPending

ApplySwapDataBytes ==
  /\ normArg.op = "swapData" /\ ~normRes.done
  /\ normRes' = Returned(swapData_bytes(normArg.s))
  /\ UNCHANGED <<proc, chain, configFile, files, normArg>>

ApplyProofBytes ==
  /\ normArg.op = "proof" /\ ~normRes.done
  /\ normRes' = Returned(proof_bytes(normArg.s))
  /\ UNCHANGED <<proc, chain, configFile, files, normArg>>

ApplyTransferIntent ==
  /\ normArg.op = "intent" /\ ~normRes.done
  /\ normRes' = Returned(transfer_intent(parse_defaults(normArg.raw)))
  /\ UNCHANGED <<proc, chain, configFile, files, normArg>>

\* change_order, stop_order, orders
ApplyOrderIdNorm ==
  /\ normArg.op = "orderId" /\ ~normRes.done
  /\ normRes' = Returned(Ok(order_id_norm(normArg.s)))
  /\ UNCHANGED <<proc, chain, configFile, files, normArg>>

\* fulfill, calculate_fulfiller_total
ApplyOrderIdsNorm ==
  /\ normArg.op = "orderIds" /\ ~normRes.done
  /\ normRes' = Returned(Ok(order_ids_norm(normArg.ids)))
  /\ UNCHANGED <<proc, chain, configFile, files, normArg>>

NextNorm ==
  \/ ApplySwapDataBytes
  \/ ApplyProofBytes
  \/ ApplyTransferIntent
  \/ ApplyOrderIdNorm
  \/ ApplyOrderIdsNorm

SpecNorm == InitNorm /\ [][NextNorm]_vars

(***************************************************************************)
(* The builder on its own: two runs of the tool, each in its own world,    *)
(* stand at a statement that builds a transaction, with the nonce and gas  *)
(* price they have fetched; each then builds.                              *)
(***************************************************************************)
\* the network calls of one pipeline run up to the broadcast
RunCalls ==
  <<"get_transaction_count", "gas_price", "chain_id", "eth_estimate_gas",
    "send_raw_transaction">>

BuildCommands == {"deploy", "deployMockUSDT", "mintMockUSDT"}

BuildSteps(cmd) == {i \in DOMAIN Program(cmd) : Program(cmd)[i].op = "build"}

\* the handler's run from its start to its build statement i, with every
\* request answered: nonce n and gas price g fetched for the first
\* transaction; for the proxy, the implementation mined with nonce n and
\* estimate e
AtBuild(cmd, i, n, g, e) ==
  LET raw   == [cmd |-> cmd, complete |-> TRUE, wellformed |-> TRUE,
                recipient |-> LowerAddr, chainId |-> <<"1">>, opts |-> NoOptions]
      start == [NewProcess(raw) EXCEPT
                  !.args = parse_defaults(raw), !.pc = "handler", !.ip = i,
                  !.config = InitialConfig,
                  !.UNTRON_CORE_ADDRESS = InitialConfig.untron_core_address,
                  !.ZKSYNC_URL = InitialConfig.zksync_rpc,
                  !.PRIVATE_KEY = InitialConfig.private_key,
                  !.globals = {"config", "UNTRON_CORE_ADDRESS", "ZKSYNC_URL", "zk_web3",
                               "PRIVATE_KEY", "account", "signer"},
                  !.gas_price = g]
      first == [start EXCEPT
                  !.nonce = n,
                  !.call_data = IF cmd = "mintMockUSDT" THEN "mint" ELSE "",
                  !.net = <<"chain_id", "get_transaction_count", "gas_price">>]
      impl  == [unsigned_tx(first, "create", "", -1) EXCEPT !.gas_limit = e, !.signed = TRUE]
  IN  IF \A j \in BuildSteps(cmd) : i <= j THEN first
      ELSE [start EXCEPT
              !.nonce = n + 1,
              !.tx = unsigned_tx(first, "create", "", -1),
              !.estimate_gas = e, !.msg = impl, !.tx_hash = impl,
              !.tx_receipt = [found |-> TRUE, tx |-> impl,
                              contractAddress |-> created_address(impl)],
              !.locals = [@ EXCEPT !.implementation_address = created_address(impl)],
              !.stdout = <<[text |-> "UntronCore implementation deployed at",
                            val  |-> created_address(impl)]>>,
              !.net = <<"chain_id">> \o RunCalls \o <<"get_transaction_count", "gas_price">>]

BuildPoints ==
  {AtBuild(cmd, i, n, g, e) :
     cmd \in BuildCommands, i \in UNION {BuildSteps(c) : c \in BuildCommands},
     n \in 0..MaxInitNonce, g \in GasPrices, e \in GasEstimates}

InitBuild ==
  /\ proc \in [RaceProcs -> {r \in BuildPoints : r.ip \in BuildSteps(r.raw.cmd)}]
  /\ files = ArtifactFiles
  /\ chain = [latest |-> 0, pool |-> {}, mined |-> {}]
  /\ configFile = InitialConfig
  /\ normArg = NoNorm
  /\ normRes = NormPending

NextBuild ==
  \/ \E p \in Procs : Build(p)

SpecBuild == InitBuild /\ [][NextBuild]_vars

(***************************************************************************)
(* Properties.                                                             *)
(***************************************************************************)
Count(seq, x) == Cardinality({i \in DOMAIN seq : seq[i] = x})

Broadcasts(r) == Count(r.net, "send_raw_transaction")

Exited(r) == r.pc = "exited"

\* the invocation ended otherwise than by a failure of the node or network
NodeHealthy(r) == r.error \notin {"RpcError", "TimeExhausted"}

StepIndex(cmd, op) == CHOOSE i \in DOMAIN Program(cmd) : Program(cmd)[i].op = op

\* C1: createOrder with --doSwap, --fixedOutput and --outToken omitted, against
\* a node that answers every call: the handler assembles an intent with
\* doSwap=false, fixedOutput=false and the zero address as outToken, and the
\* invocation ends having broadcast exactly one transaction, addressed to the
\* configured UntronCore address.
C1_CreateOrderSubmitsOnce ==
  \A p \in Procs :
    LET r == proc[p]
    IN  ( /\ r.raw.cmd = "createOrder" /\ r.raw.complete /\ r.raw.wellformed
          /\ ~r.raw.opts.doSwap /\ ~r.raw.opts.fixedOutput /\ r.raw.opts.outToken = None
          /\ Exited(r) /\ NodeHealthy(r) )
        => /\ r.transfer.ok
           /\ r.transfer.val.doSwap = FALSE
           /\ r.transfer.val.fixedOutput = FALSE
           /\ r.transfer.val.outToken = ZERO_ADDRESS
           /\ Broadcasts(r) = 1
           /\ r.msg.to = InitialConfig.untron_core_address

\* the artifact files the commands are said to need
SaidToNeed(cmd) ==
  CASE cmd = "deploy" -> {CORE_JSON, PROXY_JSON}
    [] cmd \in MockCommands -> {MOCK_JSON}
    [] OTHER -> {CORE_JSON}

\* C2: when an artifact file a command needs is absent, the invocation ends with
\* exit status 1 and a message, and at no point of it has a network call (chain
\* id, nonce, gas price, estimate, broadcast, poll) been made.
C2_MissingArtifactNoNetwork ==
  \A p \in Procs :
    LET r == proc[p]
    IN  ( /\ r.raw.cmd \in Commands /\ parse_args(r.raw) = "run"
          /\ SaidToNeed(r.raw.cmd) \ files # {} )
        => /\ r.net = <<>>
           /\ Exited(r) => (r.exit = 1 /\ r.stdout # <<>>)

\* C3: config.json changes only in deploy, after the implementation's and the
\* proxy's receipts, only in untron_core_address (which becomes the proxy's
\* address); before that statement, and in every other command, it is as found.
C3_ConfigWrittenOnlyByDeploy ==
  LET Wrote(r) == r.raw.cmd = "deploy" /\ r.pc # "import" /\ r.pc # "main"
                  /\ r.ip > StepIndex("deploy", "write_config")
  IN  /\ (\A p \in Procs : ~Wrote(proc[p])) => configFile = InitialConfig
      /\ \A p \in Procs :
           Wrote(proc[p]) =>
             /\ Broadcasts(proc[p]) = 2
             /\ proc[p].locals.implementation_address # NoAddress
             /\ proc[p].locals.proxy_address # NoAddress
             /\ proc[p].locals.proxy_address = proc[p].tx_receipt.contractAddress
             /\ configFile.untron_core_address = proc[p].locals.proxy_address
             /\ configFile.zksync_rpc = InitialConfig.zksync_rpc
             /\ configFile.private_key = InitialConfig.private_key

C3_Witness ==
  \E p \in Procs : configFile # InitialConfig /\ proc[p].exit = 0

\* C4: a read command takes the endpoint and the contract address from the
\* configuration and nothing else: it never reads the private key, derives no
\* account or signer, fetches no nonce, signs and broadcasts nothing; it makes
\* one view call, and when it succeeds it prints that call's result.
C4_ReadCommandsOnlyRead ==
  \A p \in Procs :
    LET r == proc[p]
    IN  r.raw.cmd \in ReadCommands =>
          /\ r.globals \cap {"PRIVATE_KEY", "account", "signer"} = {}
          /\ r.PRIVATE_KEY = ""
          /\ r.nonce = -1 /\ r.msg = NoTx /\ r.tx_hash = NoTx
          /\ \A i \in DOMAIN r.net : r.net[i] = "eth_call"
          /\ Len(r.net) <= 1
          /\ "zk_web3" \in r.globals =>
               /\ r.ZKSYNC_URL = InitialConfig.zksync_rpc
               /\ r.UNTRON_CORE_ADDRESS = InitialConfig.untron_core_address
          /\ r.exit = 0 =>
               /\ r.net = <<"eth_call">>
               /\ r.stdout = <<[text |-> ReadMessage(r.raw.cmd), val |-> r.result]>>
               /\ r.result # NoAddress

C4_Witness ==
  \E p \in Procs :
    /\ proc[p].raw.cmd = "calculateFulfillerTotal"
    /\ proc[p].exit = 0
    /\ proc[p].result = <<"result", 1>>

\* the lines a handler prints once a receipt has arrived
SuccessTexts ==
  {"UntronCore proxy deployed at", "Deployment complete.", "Deployed mock USDT at",
   "Minted 1000 USDT to", "Transaction sent. Receipt:"}
  \cup {WriteMessage(c) : c \in CoreWriteCommands}

\* C5: when the 240 time units (480 sleeps of 0.5) pass without a receipt, the
\* invocation ends with a timeout error: no receipt and no success message of
\* that transaction is printed, no later transaction is built or broadcast, and
\* config.json is not written.
C5_TimeoutIsTerminal ==
  \A p \in Procs :
    LET r == proc[p]
    IN  r.elapsed >= timeout * polls_per_unit =>
          /\ Exited(r) /\ r.exit = 1 /\ r.error = "TimeExhausted"
          /\ r.tx_receipt.tx # r.tx_hash
          /\ \A i \in DOMAIN r.stdout :
               /\ r.stdout[i].val[1] # "receipt"
               /\ r.stdout[i].text \notin SuccessTexts
               /\ r.stdout[i].text = "UntronCore implementation deployed at"
                    => r.tx_hash.kind = "create2"
          /\ r.msg = r.tx_hash
          /\ r.tx = [r.msg EXCEPT !.gas_limit = 0, !.signed = FALSE]
          /\ Broadcasts(r) = (IF r.tx_hash.kind = "create2" THEN 2 ELSE 1)
          /\ configFile = InitialConfig

C5_Witness ==
  \E p \in Procs :
    /\ proc[p].error = "TimeExhausted"
    /\ proc[p].raw.cmd = "deploy"
    /\ proc[p].tx_hash.kind = "create2"

\* C6: a command line that names no known command, or a known one without one
\* of its required flags, gets the usage message and a non-zero exit status;
\* no handler statement runs, no network call is made and no file is written.
C6_BadCommandLine ==
  \A p \in Procs :
    LET r == proc[p]
    IN  ( /\ \/ r.raw.cmd \notin Commands \cup {""}
             \/ r.raw.cmd \in HasRequiredFlags /\ ~r.raw.complete
          /\ r.pc \notin {"import", "main"} )
        => /\ Exited(r) /\ r.exit > 0
           /\ r.stdout = <<[text |-> "usage", val |-> NoAddress]>>
           /\ r.ip = 0
           /\ r.net = <<>>
           /\ r.globals = {"config"}
           /\ configFile = InitialConfig

C6_Witness ==
  \E p \in Procs :
    /\ proc[p].raw.cmd = "createOrder" /\ ~proc[p].raw.complete
    /\ proc[p].exit = 2

\* C7 as stated: without --outToken the intent's outToken is the zero address;
\* with the flag it is the checksum form of the given address.
C7_OutTokenAsStated ==
  (normRes.done /\ normArg.op = "intent") =>
    LET given == normArg.raw.opts.outToken
    IN  /\ (given = None /\ normRes.ok) => normRes.val.outToken = ZERO_ADDRESS
        /\ (given # None /\ normRes.ok) =>
             /\ to_checksum_address(given).ok
             /\ normRes.val.outToken = to_checksum_address(given).val

\* C7, amended: without --outToken, or with an empty value for it, the intent's
\* outToken is the zero address; with a non-empty value it is the checksum
\* form of that value, and the assembly fails when the value is no address.
C7_OutTokenDefault ==
  (normRes.done /\ normArg.op = "intent") =>
    LET given == normArg.raw.opts.outToken
    IN  /\ (given \in {None, <<>>} /\ normRes.ok) => normRes.val.outToken = ZERO_ADDRESS
        /\ (given \notin {None, <<>>} /\ normRes.ok) =>
             /\ to_checksum_address(given).ok
             /\ normRes.val.outToken = to_checksum_address(given).val
        /\ (given \notin {None, <<>>} /\ ~to_checksum_address(given).ok) => ~normRes.ok
        /\ (given \in {None, <<>>}) =>
             normRes.ok = transfer_intent(
               parse_defaults([normArg.raw EXCEPT !.opts.outToken = ZERO_ADDRESS])).ok

C7_Witness ==
  /\ normRes.done /\ normArg.op = "intent" /\ normRes.ok
  /\ normArg.raw.cmd = "changeOrder"
  /\ normArg.raw.opts.outToken = UpperAddr
  /\ normRes.val.outToken # ZERO_ADDRESS
  /\ normRes.val.outToken # UpperAddr

\* C8: each invocation takes its nonce from the node's count at the moment it
\* asks, so two invocations that have both asked before either has broadcast
\* hold the same nonce, and the transaction an invocation signs carries the
\* nonce it was given; no step waits for, or looks at, the other invocation.
C8_NonceReadFromNode ==
  /\ [][\A p \in Procs :
          (At(p, "nonce") /\ proc'[p].nonce # proc[p].nonce) =>
            proc'[p].nonce =
              chain.latest + Cardinality({t \in chain.pool : t.nonce >= chain.latest})]_vars
  /\ [](\A p, q \in Procs :
          ( /\ p # q
            /\ proc[p].nonce # -1 /\ proc[q].nonce # -1
            /\ Broadcasts(proc[p]) = 0 /\ Broadcasts(proc[q]) = 0 )
          => proc[p].nonce = proc[q].nonce)
  /\ [](\A p \in Procs : proc[p].msg # NoTx => proc[p].msg.nonce = proc[p].nonce)

C8_Witness ==
  \E p, q \in Procs :
    /\ p # q
    /\ Broadcasts(proc[p]) = 1 /\ Broadcasts(proc[q]) = 1
    /\ proc[p].tx_hash # NoTx /\ proc[q].tx_hash # NoTx
    /\ proc[p].tx_hash # proc[q].tx_hash
    /\ proc[p].tx_hash.nonce = proc[q].tx_hash.nonce
    /\ {proc[p].tx_hash, proc[q].tx_hash} \subseteq chain.pool \cup chain.mined

\* C9: an invocation that has ended does nothing more (in particular after a
\* timeout it neither cancels nor asks again), and a transaction in the node's
\* pool stays there until it is mined; so a timed-out transaction can be mined
\* after the invocation has ended.
C9_NoObservationAfterTimeout ==
  /\ [][\A p \in Procs :
          (proc[p].error = "TimeExhausted" \/ Exited(proc[p])) => proc'[p] = proc[p]]_vars
  /\ [][\A t \in chain.pool : t \in chain'.pool \/ t \in chain'.mined]_vars

C9_Witness ==
  \E p \in Procs :
    /\ Exited(proc[p]) /\ proc[p].error = "TimeExhausted"
    /\ proc[p].tx_hash \in chain.mined
    /\ ~proc[p].tx_receipt.found

IsEvenHex(h) ==
  /\ Len(h) % 2 = 0
  /\ \A i \in DOMAIN h : IsHexDigit(h[i])

Decoded(op, s) == IF op = "swapData" THEN swapData_bytes(s) ELSE proof_bytes(s)

\* the argument without its marker
Unmarked(s) == IF Len(s) >= 2 /\ SubSeq(s, 1, 2) = Str0x THEN SubSeq(s, 3, Len(s)) ELSE s

\* C10 as stated: an even-length hex string decodes to the same bytes with and
\* without the marker; odd-length input and input with a non-hex character fail.
C10_HexDecodingAsStated ==
  (normRes.done /\ normArg.op \in {"swapData", "proof"}) =>
    LET h == normArg.s
    IN  /\ IsEvenHex(h) =>
             /\ normRes.ok
             /\ Decoded(normArg.op, Str0x \o h).ok
             /\ Decoded(normArg.op, Str0x \o h).val = normRes.val
        /\ ( \/ Len(Unmarked(h)) % 2 = 1
             \/ \E i \in DOMAIN Unmarked(h) : ~IsHexDigit(Unmarked(h)[i]) ) => ~normRes.ok

\* C10, amended: an even-length hex string decodes to the same bytes with and
\* without the marker, one byte per pair of digits; input (after the marker)
\* with a character that is neither a hex digit nor a blank, or with an odd
\* number of hex digits, fails.  Blanks around whole bytes are skipped, so some
\* odd-length input decodes.
C10_HexDecoding ==
  (normRes.done /\ normArg.op \in {"swapData", "proof"}) =>
    LET h    == normArg.s
        body == Unmarked(h)
    IN  /\ IsEvenHex(h) =>
             /\ normRes.ok
             /\ Len(normRes.val) * 2 = Len(h)
             /\ \A k \in DOMAIN normRes.val :
                  normRes.val[k] = 16 * HexValue[h[2 * k - 1]] + HexValue[h[2 * k]]
             /\ Decoded(normArg.op, Str0x \o h).ok
             /\ Decoded(normArg.op, Str0x \o h).val = normRes.val
        /\ ( \/ Cardinality({i \in DOMAIN body : IsHexDigit(body[i])}) % 2 = 1
             \/ \E i \in DOMAIN body : ~IsHexDigit(body[i]) /\ body[i] # " " ) => ~normRes.ok

C10_Witness ==
  /\ normRes.done /\ normArg.op = "swapData"
  /\ normArg.s = <<"a", "F", "0", "0">>
  /\ normRes.ok /\ normRes.val = <<175, 0>>

\* C11: the normalized order identifier is the input itself when the input
\* starts with 0x, and 0x followed by the input otherwise; normalizing twice
\* gives what normalizing once gives; an identifier without the marker and
\* the same identifier with it normalize to the same value; every input, of
\* any length and with any characters, gets a value.  A list of identifiers
\* is normalized element by element.
C11_OrderIdNormalization ==
  /\ (normRes.done /\ normArg.op = "orderId") =>
       LET x == normArg.s
       IN  /\ normRes.ok
           /\ startswith_0x(x) => normRes.val = x
           /\ ~startswith_0x(x) => normRes.val = Str0x \o x
           /\ order_id_norm(normRes.val) = normRes.val
           /\ ~startswith_0x(x) => order_id_norm(Str0x \o x) = normRes.val
  /\ (normRes.done /\ normArg.op = "orderIds") =>
       /\ normRes.ok
       /\ Len(normRes.val) = Len(normArg.ids)
       /\ \A i \in DOMAIN normArg.ids :
            LET x == normArg.ids[i]
            IN  /\ normRes.val[i] = (IF startswith_0x(x) THEN x ELSE Str0x \o x)
                /\ order_id_norm(normRes.val[i]) = normRes.val[i]

C11_Witness ==
  /\ normRes.done /\ normArg.op = "orderId"
  /\ normArg.s = <<"0", "x", "g">>
  /\ normRes.val = <<"0", "x", "g">>

WriteCommands == DeployCommands \cup {"mintMockUSDT"} \cup CoreWriteCommands

\* the steps of one pipeline run, in the order of the claim
PipelineOps == <<"nonce", "gas_price", "build", "estimate", "sign", "send", "wait">>

IsPipelineStep(st) == \E i \in DOMAIN PipelineOps : PipelineOps[i] = st.op

\* the pipeline statements of a handler, in program order
PipelineOf(cmd) == SelectSeq(Program(cmd), IsPipelineStep)

\* the network calls of a whole invocation when nothing fails
CallsOf(cmd) ==
  CASE cmd = "deploy" -> <<"chain_id">> \o RunCalls \o RunCalls
    [] cmd \in MockCommands -> <<"chain_id">> \o RunCalls
    [] cmd \in CoreWriteCommands -> <<"chain_id">> \o RunCalls
    [] cmd \in ReadCommands -> <<"eth_call">>
    [] OTHER -> <<>>

IsPrefix(a, b) == Len(a) <= Len(b) /\ a = SubSeq(b, 1, Len(a))

LastCall(r) == IF r.net = <<>> THEN "" ELSE r.net[Len(r.net)]

Signed(r) == [r.tx EXCEPT !.gas_limit = r.estimate_gas, !.signed = TRUE]

\* C12: in every write handler the pipeline statements come in runs of nonce
\* fetch, gas-price fetch, build, estimation, signing, broadcast, polling, and
\* the network calls of an invocation follow that order.  A transaction is
\* built with gas limit 0 from the nonce and gas price just fetched; it is
\* signed only right after its estimation has returned, with the estimate as
\* gas limit; what is broadcast is that signed transaction; polling happens
\* only for a transaction that has been broadcast.
C12_PipelineOrder ==
  /\ [](\A cmd \in WriteCommands :
          LET ops == PipelineOf(cmd)
          IN  /\ Len(ops) > 0 /\ Len(ops) % Len(PipelineOps) = 0
              /\ \A i \in DOMAIN ops :
                   ops[i].op = PipelineOps[((i - 1) % Len(PipelineOps)) + 1])
  /\ [](\A p \in Procs : IsPrefix(proc[p].net, CallsOf(proc[p].raw.cmd)))
  /\ [][\A p \in Procs :
          LET r == proc[p]
              n == proc'[p]
          IN  /\ n.tx # r.tx =>
                   /\ At(p, "build")
                   /\ SubSeq(n.net, Len(n.net) - 2, Len(n.net))
                        = <<"get_transaction_count", "gas_price", "chain_id">>
                   /\ n.tx.gas_limit = 0 /\ ~n.tx.signed
                   /\ n.tx.nonce = r.nonce /\ n.tx.gas_price = r.gas_price
              /\ n.msg # r.msg =>
                   /\ At(p, "sign")
                   /\ LastCall(r) = "eth_estimate_gas"
                   /\ r.estimate_gas \in GasEstimates
                   /\ n.msg = Signed(r)
                   /\ n.msg.gas_limit # 0
              /\ Broadcasts(n) # Broadcasts(r) =>
                   /\ At(p, "send")
                   /\ r.msg = Signed(r)
                   /\ n.tx_hash # r.tx_hash => n.tx_hash = r.msg
              /\ (n.elapsed > r.elapsed \/ n.tx_receipt # r.tx_receipt) =>
                   /\ At(p, "wait")
                   /\ LastCall(r) = "send_raw_transaction"
                   /\ r.tx_hash = r.msg /\ r.tx_hash = Signed(r)
                   /\ r.tx_hash \in chain.pool \cup chain.mined]_vars

C12_Witness ==
  \E p \in Procs :
    /\ proc[p].raw.cmd = "deploy"
    /\ Broadcasts(proc[p]) = 2
    /\ proc[p].tx_receipt.found
    /\ proc[p].tx_receipt.tx.kind = "create2"
    /\ proc[p].tx_receipt.tx.gas_limit \in GasEstimates
    /\ proc[p].tx_receipt.tx.signed

\* C13: in every command, a statement that uses the RPC client, the contract
\* handle, the encoder, the signer or a configuration value runs only after
\* the statement that assigns it: no invocation ends with a name that was
\* never assigned.
C13_HandlesInitializedBeforeUse ==
  \A p \in Procs :
    /\ proc[p].error # "NameError"
    /\ (proc[p].pc = "handler" /\ CurStep(proc[p]).op # "init_write")
         => CurStep(proc[p]).uses \subseteq proc[p].globals

\* C14: in every write handler and in both deployment flows, the statement
\* that fetches the nonce asks for the count at the pending block, and the
\* nonce an invocation holds is the node's pending count at the moment of
\* the fetch.
C14_NonceAtPending ==
  /\ \A cmd \in WriteCommands :
       \A i \in DOMAIN Program(cmd) :
         Program(cmd)[i].op = "nonce" => Program(cmd)[i].a = "pending"
  /\ \A p \in Procs :
       (proc[p].pc = "handler" /\ CurStep(proc[p]).op = "gas_price")
         => proc[p].nonce = chain.latest + Cardinality(Pending(chain))

\* the invocation ended in a failed gas estimation
EstimationFailed(r) ==
  Exited(r) /\ r.error = "RpcError" /\ LastCall(r) = "eth_estimate_gas"

\* C15: a gas estimation either returns an estimate, and the handler goes on
\* to sign, or fails, and then the invocation ends there with that error and
\* exit status 1: the one estimation request is the last thing it did.  The
\* transaction whose estimation failed is neither signed nor broadcast, no
\* receipt and no success message is printed for it, and config.json is not
\* written.  (In deploy, a failure for the proxy leaves the implementation's
\* broadcast and its line of output as they were.)
C15_EstimationFailureIsTerminal ==
  /\ [][\A p \in Procs :
          LET r == proc[p]
              n == proc'[p]
          IN  (At(p, "estimate") /\ n # r) =>
                \/ /\ n.pc = "handler" /\ n.ip = r.ip + 1
                   /\ n.estimate_gas \in GasEstimates
                   /\ CurStep(n).op = "sign"
                \/ /\ EstimationFailed(n) /\ n.exit = 1
                   /\ n.net = Append(r.net, "eth_estimate_gas")
                   /\ n.msg = r.msg /\ n.tx_hash = r.tx_hash
                   /\ n.stdout = r.stdout
                   /\ chain' = chain /\ configFile' = configFile]_vars
  /\ [](\A p \in Procs :
          LET r == proc[p]
          IN  EstimationFailed(r) =>
                /\ Count(r.net, "eth_estimate_gas") = Broadcasts(r) + 1
                /\ r.msg # Signed(r) /\ r.msg.kind # r.tx.kind
                /\ r.tx \notin chain.pool \cup chain.mined
                /\ \A t \in chain.pool \cup chain.mined : t.nonce # r.tx.nonce
                /\ Broadcasts(r) = (IF r.tx.kind = "create2" THEN 1 ELSE 0)
                /\ \A i \in DOMAIN r.stdout :
                     /\ r.stdout[i].val[1] # "receipt"
                     /\ r.stdout[i].text \notin SuccessTexts
                     /\ r.tx.kind = "create2"
                /\ configFile = InitialConfig)

C15_Witness ==
  \E p \in Procs :
    /\ EstimationFailed(proc[p])
    /\ proc[p].raw.cmd = "deploy"
    /\ proc[p].tx.kind = "create2"
    /\ Broadcasts(proc[p]) = 1

\* the number of pipeline runs a handler has
Runs(cmd) == Len(PipelineOf(cmd)) \div Len(PipelineOps)

\* C16: an invocation makes each request of a pipeline run at most once per
\* run: at most one nonce fetch, gas-price fetch, estimation and broadcast
\* in a write command and in deployMockUSDT, at most two of each in deploy,
\* each following the one before it.  An invocation in which a step has
\* failed has ended, with status 1, and an invocation that has ended does
\* nothing more.
C16_NothingRetried ==
  /\ Runs("deploy") = 2
  /\ \A cmd \in WriteCommands \ {"deploy"} : Runs(cmd) = 1
  /\ [](\A p \in Procs :
          LET r    == proc[p]
              runs == IF r.raw.cmd \in WriteCommands THEN Runs(r.raw.cmd) ELSE 0
              N(c) == Count(r.net, c)
          IN  /\ N("get_transaction_count") <= runs
              /\ N("gas_price") <= N("get_transaction_count")
              /\ N("eth_estimate_gas") <= N("gas_price")
              /\ Broadcasts(r) <= N("eth_estimate_gas")
              /\ N("get_transaction_count") <= Broadcasts(r) + 1
              /\ Cardinality(chain.pool \cup chain.mined) <= Broadcasts(r)
              /\ r.error # "" => (Exited(r) /\ r.exit = 1)
              /\ r.exit > 0 => Exited(r))
  /\ [][\A p \in Procs :
          LET r == proc[p]
              n == proc'[p]
          IN  /\ Exited(r) => n = r
              /\ (r.pc = "handler" /\ n # r) =>
                   \/ n.pc = "handler" /\ n.ip = r.ip /\ At(p, "wait")
                   \/ n.pc = "handler" /\ n.ip = r.ip + 1 /\ n.error = ""
                   \/ Exited(n)]_vars

C16_Witness ==
  \E p \in Procs :
    /\ proc[p].raw.cmd = "deploy"
    /\ proc[p].exit = 0
    /\ Count(proc[p].net, "get_transaction_count") = 2
    /\ Count(proc[p].net, "gas_price") = 2
    /\ Count(proc[p].net, "eth_estimate_gas") = 2
    /\ Broadcasts(proc[p]) = 2

\* the transactions of a kind that the node has taken or mined
Known(kind) == {t \in chain.pool \cup chain.mined : t.kind = kind}

\* C17: in deploy, implementation_address is taken from the receipt of the
\* creation transaction, and only an invocation that holds it fetches a second
\* nonce and builds the proxy transaction, whose initialization data carries
\* that address.  The address printed as the proxy's and written to
\* config.json is the one in the proxy transaction's receipt, which is not the
\* implementation's.  An invocation whose implementation run failed builds
\* and broadcasts no proxy transaction.
C17_ImplementationThenProxy ==
  /\ [][\A p \in Procs :
          LET r == proc[p]
              n == proc'[p]
          IN  n.locals.implementation_address # r.locals.implementation_address =>
                /\ At(p, "return_address")
                /\ r.tx_receipt.found /\ r.tx_receipt.tx = r.tx_hash
                /\ r.tx_hash.kind = "create" /\ r.tx_hash \in chain.mined
                /\ n.locals.implementation_address = created_address(r.tx_hash)
                /\ Count(r.net, "get_transaction_count") = 1
                /\ Known("create2") = {}]_vars
  /\ [](\A p \in Procs :
          LET r    == proc[p]
              impl == r.locals.implementation_address
          IN  r.raw.cmd = "deploy" =>
                /\ (Count(r.net, "get_transaction_count") = 2 \/ r.tx.kind = "create2")
                     => /\ impl # NoAddress /\ impl[1] = "create"
                        /\ r.stdout # <<>>
                        /\ r.stdout[1] = [text |-> "UntronCore implementation deployed at",
                                           val  |-> impl]
                /\ r.tx.kind = "create2" => r.tx.arg = impl
                /\ \A t \in Known("create2") : t.arg = impl /\ impl # NoAddress
                /\ impl = NoAddress =>
                     /\ r.tx.kind # "create2" /\ r.msg.kind # "create2"
                     /\ Broadcasts(r) <= 1
                     /\ r.locals.proxy_address = NoAddress
                     /\ configFile = InitialConfig
                /\ r.locals.proxy_address # NoAddress =>
                     /\ r.locals.proxy_address = created_address(r.tx_hash)
                     /\ r.tx_hash.kind = "create2" /\ r.tx_hash \in chain.mined
                     /\ r.locals.proxy_address # impl
                /\ \A i \in DOMAIN r.stdout :
                     r.stdout[i].text = "UntronCore proxy deployed at"
                       => /\ r.stdout[i].val = r.locals.proxy_address
                          /\ r.stdout[i].val # NoAddress
                /\ configFile # InitialConfig =>
                     /\ configFile.untron_core_address = r.locals.proxy_address
                     /\ configFile.untron_core_address # impl
                     /\ r.locals.proxy_address # NoAddress)

C17_Witness ==
  \E p \in Procs :
    /\ proc[p].raw.cmd = "deploy" /\ proc[p].exit = 0
    /\ proc[p].locals.implementation_address[1] = "create"
    /\ proc[p].tx_hash.arg = proc[p].locals.implementation_address
    /\ configFile.untron_core_address = created_address(proc[p].tx_hash)
    /\ configFile.untron_core_address[1] = "create2"

\* the run has just executed a build statement
Built(r) ==
  /\ r.pc = "handler" /\ r.ip > 1
  /\ Program(r.raw.cmd)[r.ip - 1].op = "build"

\* the statement and the values the two builds started from are the same
SameInputs(a, b) ==
  /\ a.raw.cmd = b.raw.cmd /\ a.ip = b.ip
  /\ a.nonce = b.nonce /\ a.gas_price = b.gas_price
  /\ a.call_data = b.call_data
  /\ a.UNTRON_CORE_ADDRESS = b.UNTRON_CORE_ADDRESS
  /\ a.locals.implementation_address = b.locals.implementation_address

Polling == \E p \in Procs : At(p, "wait")

\* the polling of the invocation's current transaction is over
PollingOver ==
  \A p \in Procs :
    \/ proc[p].tx_receipt.found /\ proc[p].tx_receipt.tx = proc[p].tx_hash
    \/ Exited(proc[p]) /\ proc[p].error \in {"TimeExhausted", "RpcError"}

\* C19: a poll is never made after timeout / poll_latency = 480 sleeps; an
\* invocation that is polling comes to the end of that polling, with the
\* receipt or with a failure (the timeout, when the node never has a receipt),
\* and every invocation ends, whether the node ever mines or not.
C19_PollingTerminates ==
  /\ [](\A p \in Procs :
          /\ proc[p].elapsed <= timeout * polls_per_unit
          /\ At(p, "wait") => proc[p].elapsed < timeout * polls_per_unit
          /\ proc[p].elapsed = timeout * polls_per_unit
               => (Exited(proc[p]) /\ proc[p].error = "TimeExhausted"))
  /\ (Polling ~> PollingOver)
  /\ <>(\A p \in Procs : Exited(proc[p]))

C19_Witness ==
  \E p \in Procs :
    /\ proc[p].raw.cmd = "mintMockUSDT"
    /\ Exited(proc[p]) /\ proc[p].error = "TimeExhausted"
    /\ proc[p].elapsed = timeout * polls_per_unit
    /\ proc[p].tx_hash \in chain.pool
    /\ chain.mined = {}

====
